---- MODULE Spec2Model ----
(***************************************************************************)
(* Model of the earthquake fetch-and-normalise core of the Sismos          *)
(* dashboards: obtener_terremotos of Sismos.py (notebook variant, Peru      *)
(* only, no cache) and of Sismos_stream.py (Streamlit variant, three        *)
(* regions, result cache with a one hour time-to-live), together with the   *)
(* dashboard step that calls it.                                            *)
(*                                                                         *)
(* Conventions.  Python None and JSON null are the empty tuple << >>; a     *)
(* present value x is <<x>>.  A JSON object is a function whose DOMAIN is   *)
(* the set of keys it has.  Magnitudes, latitudes, longitudes and depths    *)
(* are counted in tenths (4.0 is 40, -18.5 is -185).  The accented region   *)
(* name of the source is written "Peru".                                    *)
(***************************************************************************)
EXTENDS Integers, Sequences, FiniteSets, TLC

VARIABLES variant, wall, mono, widgets, filtros, cache, last, log, gets, rendered

vars == <<variant, wall, mono, widgets, filtros, cache, last, log, gets, rendered>>

None == << >>

Some(x) == <<x>>

(***************************************************************************)
(* Configuration of the two programs.                                      *)
(***************************************************************************)
PERU_BOUNDS ==
    [min_latitude |-> -185, max_latitude |-> 0,
     min_longitude |-> -815, max_longitude |-> -680]

COUNTRY_BOUNDS ==
    [Peru |-> [min_latitude |-> -185, max_latitude |-> 0,
               min_longitude |-> -815, max_longitude |-> -680],
     Venezuela |-> [min_latitude |-> 6, max_latitude |-> 125,
                    min_longitude |-> -740, max_longitude |-> -590],
     Ambos |-> [min_latitude |-> -185, max_latitude |-> 125,
                min_longitude |-> -815, max_longitude |-> -590]]

\* ttl of st.cache_data, in seconds
TTL == 3600

(***************************************************************************)
(* Calendar arithmetic of datetime: a date is its proleptic Gregorian       *)
(* ordinal (day 1 is 0001-01-01); strftime('%Y-%m-%d') yields the three     *)
(* fixed-width fields <<year, month, day>>.                                 *)
(***************************************************************************)
IsLeap(y) == (y % 4 = 0) /\ ((y % 100 # 0) \/ (y % 400 = 0))

DaysInMonth(y, m) ==
    IF m = 2 THEN (IF IsLeap(y) THEN 29 ELSE 28)
    ELSE IF m \in {4, 6, 9, 11} THEN 30 ELSE 31

RECURSIVE DaysBeforeMonth(_, _)
DaysBeforeMonth(y, m) ==
    IF m = 1 THEN 0 ELSE DaysBeforeMonth(y, m - 1) + DaysInMonth(y, m - 1)

DaysBeforeYear(y) ==
    (y - 1) * 365 + ((y - 1) \div 4) - ((y - 1) \div 100) + ((y - 1) \div 400)

\* date(y, m, d).toordinal()
Ymd2Ord(ymd) == DaysBeforeYear(ymd[1]) + DaysBeforeMonth(ymd[1], ymd[2]) + ymd[3]

\* date.fromordinal(n) as (year, month, day): the 400/100/4/1-year cycles
Ord2Ymd(ord) ==
    LET n0 == ord - 1
        n400 == n0 \div 146097
        r400 == n0 % 146097
        n100 == r400 \div 36524
        r100 == r400 % 36524
        n4 == r100 \div 1461
        r4 == r100 % 1461
        n1 == r4 \div 365
        n == r4 % 365
        year == n400 * 400 + 1 + n100 * 100 + n4 * 4 + n1
        guess == (n + 50) \div 32
        before(m) == DaysBeforeMonth(year, m)
        month == IF before(guess) > n THEN guess - 1 ELSE guess
    IN  IF n1 = 4 \/ n100 = 4
        THEN <<year - 1, 12, 31>>
        ELSE <<year, month, n - before(month) + 1>>

\* a lookback that counts the day of the call as the first of the range
MinusDays_OffByOne(dt, dias) == [day |-> dt.day - dias + 1, sec |-> dt.sec]

\* datetime - timedelta(days=dias): whole days off the date, time of day kept
MinusDays(dt, dias) == [day |-> dt.day - dias, sec |-> dt.sec]

\* datetime.strftime('%Y-%m-%d')
Strftime(dt) == Ord2Ymd(dt.day)

\* pd.to_datetime(x, unit='ms'): epoch milliseconds to a calendar date and time
ToDatetime(x) ==
    IF x = None THEN None
    ELSE Some([date |-> Ord2Ymd(719163 + (x[1] \div 86400000)),
               ms |-> x[1] % 86400000])

(***************************************************************************)
(* The request of obtener_terremotos.                                      *)
(***************************************************************************)
\* a lookup that falls back to the widest rectangle
Bounds_DefaultAmbos(v, pais) ==
    IF v = "notebook" THEN PERU_BOUNDS
    ELSE IF pais \in DOMAIN COUNTRY_BOUNDS THEN COUNTRY_BOUNDS[pais]
    ELSE COUNTRY_BOUNDS["Ambos"]

\* a request that sends the Peru rectangle whatever the region
Bounds_AlwaysPeru(v, pais) ==
    IF v = "notebook" THEN PERU_BOUNDS ELSE COUNTRY_BOUNDS["Peru"]

\* bounds = COUNTRY_BOUNDS.get(pais, COUNTRY_BOUNDS['Peru']); the notebook
\* variant has the one rectangle PERU_BOUNDS
Bounds(v, pais) ==
    IF v = "notebook" THEN PERU_BOUNDS
    ELSE IF pais \in DOMAIN COUNTRY_BOUNDS THEN COUNTRY_BOUNDS[pais]
    ELSE COUNTRY_BOUNDS["Peru"]

Parametros(v, ahora, dias_atras, magnitud_minima, pais) ==
    LET fecha_fin == ahora
        fecha_inicio == MinusDays(fecha_fin, dias_atras)
        bounds == Bounds(v, pais)
    IN  [format |-> "geojson",
         starttime |-> Strftime(fecha_inicio),
         endtime |-> Strftime(fecha_fin),
         minmagnitude |-> magnitud_minima,
         minlatitude |-> bounds.min_latitude,
         maxlatitude |-> bounds.max_latitude,
         minlongitude |-> bounds.min_longitude,
         maxlongitude |-> bounds.max_longitude]

(***************************************************************************)
(* Normalisation of one feature.  The result is [exc, rec]: exc is the      *)
(* class of the exception the feature raises ("" when it raises none) and   *)
(* rec the record appended to terremotos.                                   *)
(***************************************************************************)
Raises(e) == [exc |-> e, rec |-> None]

Appends(r) == [exc |-> "", rec |-> r]

\* dict.get(key, default)
Get(d, key, default) == IF key \in DOMAIN d THEN d[key] ELSE default

\* the rectangle test with strict comparisons
Country_StrictBounds(lat, lon) ==
    LET b == COUNTRY_BOUNDS["Peru"] IN
    IF lat = None THEN "TypeError"
    ELSE IF ~(lat[1] > b.min_latitude /\ lat[1] < b.max_latitude) THEN "Venezuela"
    ELSE IF lon = None THEN "TypeError"
    ELSE IF lon[1] > b.min_longitude /\ lon[1] < b.max_longitude THEN "Peru"
    ELSE "Venezuela"

\* the conditional expression of lines 178-181; `and` evaluates its right
\* operand only when the left one is true, and an order comparison of None
\* with a number raises TypeError
Country(lat, lon) ==
    LET b == COUNTRY_BOUNDS["Peru"] IN
    IF lat = None THEN "TypeError"
    ELSE IF ~(lat[1] >= b.min_latitude /\ lat[1] <= b.max_latitude) THEN "Venezuela"
    ELSE IF lon = None THEN "TypeError"
    ELSE IF lon[1] >= b.min_longitude /\ lon[1] <= b.max_longitude THEN "Peru"
    ELSE "Venezuela"

\* Sismos_stream.py, body of the loop over datos['features']
NormalizarStream(evento) ==
    IF {"properties", "geometry"} \ DOMAIN evento # {}
    THEN Raises("KeyError")
    ELSE
    LET prop == evento.properties
        geo == evento.geometry
    IN  IF "coordinates" \notin DOMAIN geo THEN Raises("KeyError")
        ELSE IF Len(geo.coordinates) < 2 THEN Raises("IndexError")
        ELSE
        LET lat == geo.coordinates[2]
            lon == geo.coordinates[1]
            country == Country(lat, lon)
        IN  IF country = "TypeError" THEN Raises("TypeError")
            ELSE IF {"time", "mag", "place"} \ DOMAIN prop # {} THEN Raises("KeyError")
            ELSE Appends(
                [fecha |-> ToDatetime(prop.time),
                 magnitud |-> prop.mag,
                 profundidad |-> IF Len(geo.coordinates) > 2
                                 THEN geo.coordinates[3] ELSE None,
                 lugar |-> prop.place,
                 latitud |-> lat,
                 longitud |-> lon,
                 pais |-> country,
                 tsunami |-> IF Get(prop, "tsunami", Some(0)) = Some(1) THEN 1 ELSE 0,
                 significancia |-> Get(prop, "sig", Some(0))])

\* Sismos.py, body of the loop over datos['features']
NormalizarNotebook(evento) ==
    IF {"properties", "geometry"} \ DOMAIN evento # {}
    THEN Raises("KeyError")
    ELSE
    LET prop == evento.properties
        geo == evento.geometry
    IN  IF {"time", "mag", "place"} \ DOMAIN prop # {} THEN Raises("KeyError")
        ELSE IF "coordinates" \notin DOMAIN geo THEN Raises("KeyError")
        ELSE IF Len(geo.coordinates) < 2 THEN Raises("IndexError")
        ELSE Appends(
            [fecha |-> ToDatetime(prop.time),
             magnitud |-> prop.mag,
             profundidad |-> Get(prop, "depth", None),
             lugar |-> prop.place,
             latitud |-> geo.coordinates[2],
             longitud |-> geo.coordinates[1]])

Normalizar(v, evento) ==
    IF v = "notebook" THEN NormalizarNotebook(evento) ELSE NormalizarStream(evento)

\* a loop that leaves out the events without a magnitude
RECURSIVE Terremotos_SkipNullMag(_, _, _)
Terremotos_SkipNullMag(v, features, acc) ==
    IF features = << >> THEN [exc |-> "", table |-> acc]
    ELSE LET r == Normalizar(v, Head(features)) IN
         IF r.exc # "" THEN [exc |-> r.exc, table |-> << >>]
         ELSE IF r.rec.magnitud = None
         THEN Terremotos_SkipNullMag(v, Tail(features), acc)
         ELSE Terremotos_SkipNullMag(v, Tail(features), Append(acc, r.rec))

\* a loop that passes over the features it cannot read
RECURSIVE Terremotos_SkipMalformed(_, _, _)
Terremotos_SkipMalformed(v, features, acc) ==
    IF features = << >> THEN [exc |-> "", table |-> acc]
    ELSE LET r == Normalizar(v, Head(features)) IN
         IF r.exc # "" THEN Terremotos_SkipMalformed(v, Tail(features), acc)
         ELSE Terremotos_SkipMalformed(v, Tail(features), Append(acc, r.rec))

\* the loop: the first feature that raises ends it, and the records built
\* so far are lost with the frame
RECURSIVE Terremotos(_, _, _)
Terremotos(v, features, acc) ==
    IF features = << >> THEN [exc |-> "", table |-> acc]
    ELSE LET r == Normalizar(v, Head(features)) IN
         IF r.exc # "" THEN [exc |-> r.exc, table |-> << >>]
         ELSE Terremotos(v, Tail(features), Append(acc, r.rec))

(***************************************************************************)
(* The body of obtener_terremotos from requests.get on, for the response    *)
(* the network gives.  The result is what the caller observes: ret is       *)
(* "table", "None" or "raise"; report is the message shown to the user.     *)
(***************************************************************************)
Channel(v, kind) ==
    IF v = "notebook" THEN "print"
    ELSE IF kind = "error" THEN "st.error" ELSE "st.warning"

NoReport == [channel |-> "", msg |-> ""]

\* a try block that asks a second time when the first request fails
Peticiones_RetryOnError(v, resp) ==
    IF resp.kind \in {"ConnectionError", "HTTPError"}
    THEN <<"GET", "GET">> ELSE <<"GET">>

\* the requests the try block sends, whatever the answer: the one
\* requests.get of line 163 (line 37 in the notebook), outside any loop
Peticiones(v, resp) == <<"GET">>

\* an except clause that names ConnectionError only
Cuerpo_HTTPErrorUncaught(v, resp) ==
    IF resp.kind = "ConnectionError"
    THEN [ret |-> "None", exc |-> "",
          report |-> [channel |-> Channel(v, "error"),
                      msg |-> "Error al conectarse a la API"],
          table |-> << >>]
    ELSE IF resp.kind = "HTTPError"
    THEN [ret |-> "raise", exc |-> "HTTPError", report |-> NoReport, table |-> << >>]
    ELSE IF resp.features = << >>
    THEN [ret |-> "None", exc |-> "",
          report |-> [channel |-> Channel(v, "warning"),
                      msg |-> "No se encontraron terremotos"],
          table |-> << >>]
    ELSE LET t == Terremotos(v, resp.features, << >>) IN
         IF t.exc # ""
         THEN [ret |-> "raise", exc |-> t.exc, report |-> NoReport, table |-> << >>]
         ELSE [ret |-> "table", exc |-> "", report |-> NoReport, table |-> t.table]

\* an empty feature list reported the way a failed request is
Cuerpo_EmptyAsError(v, resp) ==
    IF resp.kind \in {"ConnectionError", "HTTPError"} \/ resp.features = << >>
    THEN [ret |-> "None", exc |-> "",
          report |-> [channel |-> Channel(v, "error"),
                      msg |-> "Error al conectarse a la API"],
          table |-> << >>]
    ELSE LET t == Terremotos(v, resp.features, << >>) IN
         IF t.exc # ""
         THEN [ret |-> "raise", exc |-> t.exc, report |-> NoReport, table |-> << >>]
         ELSE [ret |-> "table", exc |-> "", report |-> NoReport, table |-> t.table]

Cuerpo(v, resp) ==
    IF resp.kind \in {"ConnectionError", "HTTPError"}
    THEN \* except requests.exceptions.RequestException
         [ret |-> "None", exc |-> "",
          report |-> [channel |-> Channel(v, "error"),
                      msg |-> "Error al conectarse a la API"],
          table |-> << >>]
    ELSE IF resp.features = << >>
    THEN [ret |-> "None", exc |-> "",
          report |-> [channel |-> Channel(v, "warning"),
                      msg |-> "No se encontraron terremotos"],
          table |-> << >>]
    ELSE LET t == Terremotos(v, resp.features, << >>) IN
         IF t.exc # ""
         THEN [ret |-> "raise", exc |-> t.exc, report |-> NoReport, table |-> << >>]
         ELSE [ret |-> "table", exc |-> "", report |-> NoReport, table |-> t.table]

(***************************************************************************)
(* What the catalog may answer: a transport error, a non-success status,    *)
(* or a feature collection.  Every JSON object carries its "type" member.   *)
(***************************************************************************)
Feature(prop, coords) ==
    [type |-> "Feature",
     properties |-> prop,
     geometry |-> [type |-> "Point", coordinates |-> coords]]

Props(time, mag, place) ==
    [type |-> "earthquake", time |-> time, mag |-> mag, place |-> place]

Coords(lon, lat, depth) == <<Some(lon), Some(lat), Some(depth)>>

\* well-formed events, inside the Peru rectangle and in Venezuela
FPeru == Feature(Props(Some(86399999), Some(45), Some("Peru")), Coords(-750, -90, 100))

FVenezuela ==
    Feature(Props(Some(86400000), Some(52), Some("Venezuela")) @@ [tsunami |-> Some(1)],
            Coords(-660, 70, 3500))

\* an event the catalog has no magnitude for: "mag": null
FNullMag == Feature(Props(Some(0), None, Some("Peru")), Coords(-760, -120, 330))

\* a feature without the "mag" member
FNoMag ==
    Feature([type |-> "earthquake", time |-> Some(0), place |-> Some("Peru")],
            Coords(-750, -90, 100))

\* features without the "time" member, without the "place" member
FNoTime ==
    Feature([type |-> "earthquake", mag |-> Some(40), place |-> Some("Peru")],
            Coords(-750, -90, 100))

FNoPlace ==
    Feature([type |-> "earthquake", time |-> Some(0), mag |-> Some(40)],
            Coords(-750, -90, 100))

\* a geometry without the "coordinates" member
FNoCoordinates ==
    [type |-> "Feature", properties |-> Props(Some(0), Some(40), Some("x")),
     geometry |-> [type |-> "Point"]]

\* two coordinates only, the depth as a member of properties
FPropDepth ==
    Feature(Props(Some(0), Some(40), Some("Peru")) @@ [depth |-> Some(50)],
            <<Some(-750), Some(-90)>>)

\* two coordinates only and no depth member
FNoDepth == Feature(Props(Some(0), Some(40), Some("Peru")), <<Some(-750), Some(-90)>>)

\* null coordinates
FNullLat == Feature(Props(Some(0), Some(40), Some("x")), <<Some(-750), None, Some(100)>>)

FNullLon == Feature(Props(Some(0), Some(40), Some("x")), <<None, Some(70), Some(100)>>)

\* no geometry member, and a geometry with one coordinate
FNoGeometry == [type |-> "Feature", properties |-> Props(Some(0), Some(40), Some("x"))]

FOneCoord == Feature(Props(Some(0), Some(40), Some("x")), <<Some(-750)>>)

\* events on and just off the border of the Peru rectangle
Border ==
    {Feature(Props(Some(0), Some(40), Some("b")), Coords(lon, lat, 100)) :
        lon \in {-816, -815, -680, -679}, lat \in {-186, -185, 0, 1}}

RECURSIVE SeqsUpTo(_, _)
SeqsUpTo(S, n) ==
    IF n = 0 THEN {<< >>}
    ELSE LET shorter == SeqsUpTo(S, n - 1) IN
         shorter \cup {Append(q, x) : q \in {t \in shorter : Len(t) = n - 1}, x \in S}

Responses(F, n) ==
    {[kind |-> "ConnectionError"], [kind |-> "HTTPError"]}
        \cup {[kind |-> "ok", features |-> q] : q \in SeqsUpTo(F, n)}

(***************************************************************************)
(* State.  variant: which program runs.  wall: datetime.now() as [day,      *)
(* sec]; mono: the monotonic clock the cache expires entries by.  widgets:  *)
(* the values of the input controls.  cache: the entries of                 *)
(* st.cache_data, [key, value, expires].  last: what the latest call of     *)
(* obtener_terremotos did and returned.  log: one line per call.  gets:     *)
(* the HTTP GETs sent to the catalog so far.  filtros: the values of the    *)
(* depth and tsunami controls.  rendered: the table the latest run of the   *)
(* page handed to the metrics, table, map, charts and CSV, None when it     *)
(* rendered none.                                                          *)
(***************************************************************************)
MaxCalls == 3

MaxCallsNorm == 1

MaxCallsDates == 1

MaxCallsRegion == 2

MaxCallsRender == 2

MaxFeatures == 2

MaxFeaturesCache == 1

MaxElapsed == 3600

Step == 1800

NoCall ==
    [key |-> << >>, hit |-> FALSE, fecha_fin |-> None, request |-> None,
     resp |-> None, ret |-> "", exc |-> "", report |-> NoReport, table |-> << >>]

Defaults == [dias_atras |-> 30, magnitud_minima |-> 40, pais |-> "Peru"]

\* number_input value=300 (km), checkbox value=False
FiltrosDefault == [profundidad_max |-> 3000, mostrar_tsunamis |-> FALSE]

Init ==
    /\ variant \in {"notebook", "stream"}
    /\ wall \in {[day |-> 738945, sec |-> 84600], [day |-> 739925, sec |-> 43200]}
    /\ mono = 0
    /\ widgets = Defaults
    /\ cache = {}
    /\ last = NoCall
    /\ log = << >>
    /\ gets = 0
    /\ filtros = FiltrosDefault
    /\ rendered = None

\* an entry still served at the instant its time-to-live ends
Cached_ExpiresLate(key) == {e \in cache : e.key = key /\ mono <= e.expires}

\* st.cache_data(ttl=3600): the entry of this key, while it has not expired
Cached(key) == {e \in cache : e.key = key /\ mono < e.expires}

\* storing purges what has expired and replaces the key's entry
Store(key, value) ==
    {e \in cache : e.key # key /\ mono < e.expires}
        \cup {[key |-> key, value |-> value, expires |-> mono + TTL]}

\* one call obtener_terremotos(dias_atras, magnitud_minima, pais), the
\* catalog answering from R when it is asked.  The decorator returns the
\* stored value of an unexpired entry (replaying the message the body
\* showed) without running the body; it stores what the body returns, and
\* nothing when the body raises.
Obtener(dias_atras, magnitud_minima, pais, R) ==
    LET key == <<dias_atras, magnitud_minima, pais>> IN
    IF variant = "stream" /\ Cached(key) # {}
    THEN LET e == CHOOSE e \in Cached(key) : TRUE IN
         /\ last' = [key |-> key, hit |-> TRUE, fecha_fin |-> None,
                     request |-> None, resp |-> None,
                     ret |-> e.value.ret, exc |-> "", report |-> e.value.report,
                     table |-> e.value.table]
         /\ log' = Append(log, [key |-> key, at |-> mono, requested |-> FALSE,
                                ret |-> e.value.ret])
         /\ UNCHANGED <<cache, gets>>
    ELSE \E resp \in R :
         LET out == Cuerpo(variant, resp) IN
         /\ last' = [key |-> key, hit |-> FALSE, fecha_fin |-> Some(wall),
                     request |-> Some(Parametros(variant, wall, dias_atras,
                                                 magnitud_minima, pais)),
                     resp |-> Some(resp), ret |-> out.ret, exc |-> out.exc,
                     report |-> out.report, table |-> out.table]
         /\ log' = Append(log, [key |-> key, at |-> mono, requested |-> TRUE,
                                ret |-> out.ret])
         /\ cache' = IF variant = "stream" /\ out.ret # "raise"
                     THEN Store(key, [ret |-> out.ret, report |-> out.report,
                                      table |-> out.table])
                     ELSE cache
         /\ gets' = gets + Len(Peticiones(variant, resp))

\* a filter that lets the records without a depth through
Mostrar_KeepsAbsentDepth(v, out, f) ==
    IF out.ret # "table" \/ Len(out.table) = 0 THEN None
    ELSE IF v = "notebook" THEN Some(out.table)
    ELSE LET deep(r) == r.profundidad = None \/ r.profundidad[1] <= f.profundidad_max
             byDepth == SelectSeq(out.table, deep)
             tsunami(r) == r.tsunami = 1
         IN  Some(IF f.mostrar_tsunamis THEN SelectSeq(byDepth, tsunami) ELSE byDepth)

\* what follows the call in the script.  `if df is not None and not
\* df.empty`: nothing is rendered for None or an empty table, nor when the
\* call raised, which ends the run.  The streaming dashboard keeps the rows
\* with profundidad <= profundidad_max (the comparison is false for an
\* absent depth) and, with the tsunami option, those with tsunami == 1; the
\* notebook renders the table as it is.
Mostrar(v, out, f) ==
    IF out.ret # "table" \/ Len(out.table) = 0 THEN None
    ELSE IF v = "notebook" THEN Some(out.table)
    ELSE LET deep(r) == r.profundidad # None /\ r.profundidad[1] <= f.profundidad_max
             byDepth == SelectSeq(out.table, deep)
             tsunami(r) == r.tsunami = 1
         IN  Some(IF f.mostrar_tsunamis THEN SelectSeq(byDepth, tsunami) ELSE byDepth)

\* the page is loaded or reloaded, or the cell run again: the script runs
\* with the controls as they are; n bounds the number of calls
Refresh(R, n) ==
    /\ Len(log) < n
    /\ Obtener(widgets.dias_atras, widgets.magnitud_minima, widgets.pais, R)
    /\ rendered' = Mostrar(variant, last', filtros)
    /\ UNCHANGED <<variant, wall, mono, widgets, filtros>>

\* the user moves a control: the script runs with the new values
ChangeParams(D, M, P, R, n) ==
    /\ Len(log) < n
    /\ \E d \in D, m \in M, p \in P :
          /\ variant = "notebook" => p = widgets.pais
          /\ widgets' = [dias_atras |-> d, magnitud_minima |-> m, pais |-> p]
          /\ widgets' # widgets
          /\ Obtener(d, m, p, R)
    /\ rendered' = Mostrar(variant, last', filtros)
    /\ UNCHANGED <<variant, wall, mono, filtros>>

\* the user moves the depth or the tsunami control of the streaming
\* dashboard: the script runs with the new values
ChangeFilter(PM, TS, R, n) ==
    /\ variant = "stream"
    /\ Len(log) < n
    /\ \E pm \in PM, ts \in TS :
          /\ filtros' = [profundidad_max |-> pm, mostrar_tsunamis |-> ts]
          /\ filtros' # filtros
    /\ Obtener(widgets.dias_atras, widgets.magnitud_minima, widgets.pais, R)
    /\ rendered' = Mostrar(variant, last', filtros')
    /\ UNCHANGED <<variant, wall, mono, widgets>>

\* obtener_terremotos called by other code than the page script, with any
\* value for pais (the function of the multi-region variant takes one)
Llamar(D, M, P, R, n) ==
    /\ variant = "stream"
    /\ Len(log) < n
    /\ \E d \in D, m \in M, p \in P : Obtener(d, m, p, R)
    /\ UNCHANGED <<variant, wall, mono, widgets, filtros, rendered>>

\* time passes
Tick ==
    /\ mono + Step <= MaxElapsed
    /\ mono' = mono + Step
    /\ wall' = IF wall.sec + Step >= 86400
               THEN [day |-> wall.day + 1, sec |-> wall.sec + Step - 86400]
               ELSE [day |-> wall.day, sec |-> wall.sec + Step]
    /\ UNCHANGED <<variant, widgets, filtros, cache, last, log, gets, rendered>>

\* the options of the region selectbox
Paises == {"Peru", "Venezuela", "Ambos"}

(***************************************************************************)
(* Spec: caching and refreshing.  Few inputs and answers, several calls.    *)
(***************************************************************************)
Catalog == {FPeru, FNoMag}

Next ==
    \/ Refresh(Responses(Catalog, MaxFeaturesCache), MaxCalls)
    \/ ChangeParams({30}, {40}, Paises, Responses(Catalog, MaxFeaturesCache), MaxCalls)
    \/ Tick

Spec == Init /\ [][Next]_vars

(***************************************************************************)
(* SpecNorm: normalisation.  Every shape of feature, few calls.             *)
(***************************************************************************)
CatalogNorm ==
    {FPeru, FVenezuela, FNullMag, FNoMag, FNoTime, FNoPlace, FPropDepth,
     FNoDepth, FNullLat, FNullLon, FNoGeometry, FNoCoordinates, FOneCoord}
        \cup Border

\* the north-east corner of the Peru rectangle
FCorner == Feature(Props(Some(0), Some(40), Some("b")), Coords(-680, 0, 100))

\* answers of one feature of any shape, and longer ones of these
CatalogBatch == {FVenezuela, FNullMag, FNoMag, FCorner}

ResponsesNorm == Responses(CatalogNorm, 1) \cup Responses(CatalogBatch, MaxFeatures)

NextNorm ==
    \/ Refresh(ResponsesNorm, MaxCallsNorm)
    \/ ChangeParams({30}, {40}, Paises, ResponsesNorm, MaxCallsNorm)
    \/ Tick

SpecNorm == Init /\ [][NextNorm]_vars

(***************************************************************************)
(* SpecDates: the date range of the request.  The lookback slider stands    *)
(* at any of its positions, on days around month, year and leap-day         *)
(* boundaries; the catalog cannot be reached, which the request built       *)
(* before does not depend on.                                               *)
(***************************************************************************)
InitDates ==
    /\ variant \in {"notebook", "stream"}
    /\ wall \in {[day |-> d, sec |-> 84600] :
                    d \in {738945, 738946, 739252, 739310, 739925}}
    /\ mono = 0
    /\ widgets \in {[dias_atras |-> d, magnitud_minima |-> 40, pais |-> "Peru"] :
                       d \in 1 .. 365}
    /\ cache = {}
    /\ last = NoCall
    /\ log = << >>
    /\ gets = 0
    /\ filtros = FiltrosDefault
    /\ rendered = None

Unreachable == {[kind |-> "ConnectionError"]}

NextDates ==
    \/ Refresh(Unreachable, MaxCallsDates)
    \/ ChangeParams({1, 365}, {40}, {"Peru"}, Unreachable, MaxCallsDates)
    \/ Tick

SpecDates == InitDates /\ [][NextDates]_vars

(***************************************************************************)
(* SpecRegion: the rectangle of the request, for the regions of the         *)
(* selectbox and for values of pais that name no region.                    *)
(***************************************************************************)
NextRegion ==
    \/ Refresh(Responses(Catalog, MaxFeaturesCache), MaxCallsRegion)
    \/ ChangeParams({30}, {40}, Paises, Responses(Catalog, MaxFeaturesCache),
                    MaxCallsRegion)
    \/ Llamar({30}, {40}, Paises \cup {"Chile", ""},
              Responses(Catalog, MaxFeaturesCache), MaxCallsRegion)
    \/ Tick

SpecRegion == Init /\ [][NextRegion]_vars

(***************************************************************************)
(* SpecRender: what the streaming dashboard renders, for shallow and deep   *)
(* events, with and without a depth and a tsunami alert.                    *)
(***************************************************************************)
CatalogRender == {FPeru, FVenezuela, FNoDepth}

NextRender ==
    \/ Refresh(Responses(CatalogRender, MaxFeatures), MaxCallsRender)
    \/ ChangeParams({30}, {40}, {"Peru", "Ambos"},
                    Responses(CatalogRender, MaxFeatures), MaxCallsRender)
    \/ ChangeFilter({0, 3000, 7000}, BOOLEAN,
                    Responses(CatalogRender, MaxFeatures), MaxCallsRender)
    \/ Tick

SpecRender == Init /\ [][NextRender]_vars

(***************************************************************************)
(* Properties.                                                             *)
(***************************************************************************)
Failed == last.resp # None /\ last.resp[1].kind \in {"ConnectionError", "HTTPError"}

Succeeded == last.resp # None /\ last.resp[1].kind = "ok"

ErrorReported ==
    /\ last.report.msg = "Error al conectarse a la API"
    /\ last.report.channel \in {"st.error", "print"}

\* C1, as stated: a transport error or a non-success status is reported and
\* the call returns None, and no call ever ends in an exception.
C1_NoExceptionOfAnyKind ==
    /\ Failed => (last.ret = "None" /\ ErrorReported)
    /\ last.ret # "raise"

\* C1, amended: a transport error or a non-success status is reported and
\* the call returns None; the exceptions that leave the function are not
\* request exceptions: they come from a response that was received.
C1_RequestErrorsReturnNone ==
    /\ Failed => (last.ret = "None" /\ last.exc = "" /\ ErrorReported)
    /\ last.ret = "raise" =>
          (Succeeded /\ last.exc \in {"KeyError", "IndexError", "TypeError"})

C1_Witness ==
    /\ variant = "stream"
    /\ last.resp = Some([kind |-> "HTTPError"])
    /\ last.ret = "None"

\* C2: a table returned for a response with N >= 1 features has N records,
\* the i-th made from the i-th feature.
C2_OneRecordPerFeature ==
    (last.resp # None /\ last.ret = "table") =>
        LET fs == last.resp[1].features IN
        /\ Len(fs) >= 1
        /\ Len(last.table) = Len(fs)
        /\ \A i \in 1 .. Len(fs) :
              /\ last.table[i].lugar = fs[i].properties.place
              /\ last.table[i].magnitud = fs[i].properties.mag
              /\ last.table[i].fecha = ToDatetime(fs[i].properties.time)
              /\ last.table[i].longitud = fs[i].geometry.coordinates[1]
              /\ last.table[i].latitud = fs[i].geometry.coordinates[2]

C2_Witness ==
    /\ last.resp # None
    /\ last.ret = "table"
    /\ Len(last.table) = 2
    /\ last.table[1].lugar = Some("Venezuela")
    /\ last.table[2].magnitud = None

\* what the caller and the user can tell one outcome from another by
Observed(o) == <<o.ret, o.exc, o.report>>

\* C3: an empty feature list gives None without an exception, with a
\* message of its own: the outcome differs from that of a failed request.
C3_EmptyIsDistinctNoData ==
    (Succeeded /\ last.resp[1].features = << >>) =>
        /\ last.ret = "None"
        /\ last.exc = ""
        /\ last.report.msg = "No se encontraron terremotos"
        /\ \A k \in {"ConnectionError", "HTTPError"} :
              Observed(Cuerpo(variant, [kind |-> k])) # Observed(last)

C3_Witness ==
    /\ variant = "stream"
    /\ Succeeded
    /\ last.resp[1].features = << >>
    /\ last.report.channel = "st.warning"

Calls == 1 .. Len(log)

\* a call after the time-to-live of every earlier request of its key asks
\* the catalog again
AsksAgainAfterTTL ==
    \A j \in Calls :
        (\A i \in 1 .. (j - 1) :
            (log[i].key = log[j].key /\ log[i].requested)
                => log[j].at - log[i].at >= TTL)
        => log[j].requested

\* C4, as stated: in the cached variant two calls with the same tuple less
\* than 3600 seconds apart make one request, and one after expiry asks again.
C4_OneRequestWithinTTL ==
    variant = "stream" =>
        /\ \A i, j \in Calls :
              (i < j /\ log[i].key = log[j].key /\ log[j].at - log[i].at < TTL)
                  => ~(log[i].requested /\ log[j].requested)
        /\ AsksAgainAfterTTL

\* C4, amended: the same, for an earlier call that returned; a call that
\* ended in an exception stores nothing, and the next one asks again.
C4_OneRequestWithinTTLUnlessRaised ==
    variant = "stream" =>
        /\ \A i, j \in Calls :
              (i < j /\ log[i].key = log[j].key /\ log[j].at - log[i].at < TTL)
                  => (~(log[i].requested /\ log[j].requested) \/ log[i].ret = "raise")
        /\ AsksAgainAfterTTL

C4_Witness ==
    /\ variant = "stream"
    /\ Len(log) = 3
    /\ log[1].key = log[2].key /\ log[2].key = log[3].key
    /\ log[1].requested /\ log[1].ret = "table"
    /\ ~log[2].requested /\ log[2].at - log[1].at < TTL
    /\ log[3].requested /\ log[3].at - log[1].at >= TTL

\* C5: after a call that asked the catalog and ended in the failure or the
\* no-data outcome, the next run of the dashboard asks the catalog again.
C5_RetryAfterFailure ==
    \A i \in Calls :
        (i < Len(log) /\ log[i].requested /\ log[i].ret = "None")
            => log[i + 1].requested

\* C6: a feature with coordinates [lon, lat, depth] gives longitud = lon,
\* latitud = lat and profundidad = depth, in both variants.
C6_CoordinatesToFields ==
    (last.resp # None /\ last.ret = "table") =>
        \A i \in 1 .. Len(last.table) :
            LET c == last.resp[1].features[i].geometry.coordinates IN
            Len(c) = 3 =>
                /\ last.table[i].longitud = c[1]
                /\ last.table[i].latitud = c[2]
                /\ last.table[i].profundidad = c[3]

\* C7: the depth is the third coordinate when there is one, otherwise the
\* depth member of properties when there is one, otherwise None.
C7_DepthFallbackChain ==
    (last.resp # None /\ last.ret = "table") =>
        \A i \in 1 .. Len(last.table) :
            LET f == last.resp[1].features[i] IN
            last.table[i].profundidad =
                IF Len(f.geometry.coordinates) > 2 THEN f.geometry.coordinates[3]
                ELSE IF "depth" \in DOMAIN f.properties THEN f.properties.depth
                ELSE None

\* C8: in the multi-region variant, whatever the region selected, pais is
\* "Peru" exactly when -18.5 <= latitude <= 0.0 and -81.5 <= longitude <= -68.0
\* and "Venezuela" otherwise; every point of the Venezuela rectangle is
\* "Venezuela".
C8_CountryByPeruRectangle ==
    (variant = "stream" /\ last.ret = "table") =>
        \A i \in 1 .. Len(last.table) :
            LET r == last.table[i]
                inPeru ==
                    /\ r.latitud # None /\ r.longitud # None
                    /\ -185 <= r.latitud[1] /\ r.latitud[1] <= 0
                    /\ -815 <= r.longitud[1] /\ r.longitud[1] <= -680
                inVenezuela ==
                    /\ r.latitud # None /\ r.longitud # None
                    /\ 6 <= r.latitud[1] /\ r.latitud[1] <= 125
                    /\ -740 <= r.longitud[1] /\ r.longitud[1] <= -590
            IN  /\ r.pais = IF inPeru THEN "Peru" ELSE "Venezuela"
                /\ inVenezuela => r.pais = "Venezuela"

C8_Witness ==
    /\ variant = "stream"
    /\ last.ret = "table"
    /\ last.key[3] = "Venezuela"
    /\ Len(last.table) = 2
    /\ last.table[1].latitud = Some(0) /\ last.table[1].longitud = Some(-680)
    /\ last.table[1].pais = "Peru"
    /\ last.table[2].latitud = Some(70) /\ last.table[2].longitud = Some(-660)
    /\ last.table[2].pais = "Venezuela"

\* a year, a month of it and a day of that month
IsDate(ymd) ==
    /\ ymd[1] >= 1
    /\ ymd[2] \in 1 .. 12
    /\ ymd[3] \in 1 .. DaysInMonth(ymd[1], ymd[2])

\* C9: for a lookback of 1..365 days the request ends on the date of the
\* call and starts on the date that many days earlier.
C9_DateRangeSpansLookback ==
    last.request # None =>
        LET p == last.request[1]
            dias_atras == last.key[1]
            hoy == last.fecha_fin[1].day
        IN  /\ dias_atras \in 1 .. 365
            /\ IsDate(p.starttime) /\ IsDate(p.endtime)
            /\ Ymd2Ord(p.endtime) = hoy
            /\ Ymd2Ord(p.starttime) = hoy - dias_atras
            /\ Ymd2Ord(p.endtime) - Ymd2Ord(p.starttime) = dias_atras

C9_Witness ==
    /\ last.request # None
    /\ last.key[1] = 365
    /\ last.request[1].endtime = <<2025, 2, 28>>
    /\ last.request[1].starttime = <<2024, 2, 29>>

\* C10: no record of a returned table has a null magnitude, latitude or
\* longitude.
C10_NoNullMagnitudeOrCoordinate ==
    last.ret = "table" =>
        \A i \in 1 .. Len(last.table) :
            /\ last.table[i].magnitud # None
            /\ last.table[i].latitud # None
            /\ last.table[i].longitud # None

\* the rectangle of a named region: <<min_latitude, max_latitude,
\* min_longitude, max_longitude>>
RegionBox(p) ==
    CASE p = "Peru" -> <<-185, 0, -815, -680>>
      [] p = "Venezuela" -> <<6, 125, -740, -590>>
      [] p = "Ambos" -> <<-185, 125, -815, -590>>

InBox(lat, lon, box) ==
    /\ lat # None /\ lon # None
    /\ box[1] <= lat[1] /\ lat[1] <= box[2]
    /\ box[3] <= lon[1] /\ lon[1] <= box[4]

SelectedRegion == IF variant = "notebook" THEN "Peru" ELSE last.key[3]

RecordsInsideRegion ==
    \A i \in 1 .. Len(last.table) :
        InBox(last.table[i].latitud, last.table[i].longitud, RegionBox(SelectedRegion))

\* the catalog answered with events inside the rectangle it was asked for
FilterHonoured ==
    LET p == last.request[1] IN
    \A i \in 1 .. Len(last.resp[1].features) :
        LET c == last.resp[1].features[i].geometry.coordinates IN
        InBox(c[2], c[1],
              <<p.minlatitude, p.maxlatitude, p.minlongitude, p.maxlongitude>>)

\* C11, as stated: every record returned for a selected region lies in that
\* region's rectangle.
C11_RecordsInsideRegion ==
    (last.resp # None /\ last.ret = "table") => RecordsInsideRegion

\* C11, amended: every record returned for a selected region lies in that
\* region's rectangle when every event of the catalog's answer lies in the
\* rectangle sent; the code sends the region's rectangle and filters nothing.
C11_RecordsInsideRegionIfHonoured ==
    (last.resp # None /\ last.ret = "table" /\ FilterHonoured) => RecordsInsideRegion

C11_Witness ==
    /\ variant = "stream"
    /\ last.resp # None
    /\ last.ret = "table"
    /\ last.key[3] = "Venezuela"
    /\ FilterHonoured
    /\ Len(last.table) = 1
    /\ last.table[1].latitud = Some(70)

\* the calls that ran the body of obtener_terremotos
BodyRuns == {i \in Calls : log[i].requested}

\* C12: each execution of the body sends exactly one GET, whatever the
\* outcome, and nothing else sends one: no request follows a failed one
\* until obtener_terremotos is called again; the failure is reported once.
C12_OneGetPerExecution ==
    /\ gets = Cardinality(BodyRuns)
    /\ Failed => (last.report # NoReport /\ ErrorReported)

C12_Witness ==
    /\ Failed
    /\ Len(log) = 2
    /\ log[1].requested /\ log[1].ret = "None"
    /\ gets = 2
    /\ mono > log[2].at

\* a feature without one of the members every record is built from
LacksRequired(f) ==
    \/ {"properties", "geometry"} \ DOMAIN f # {}
    \/ {"time", "mag", "place"} \ DOMAIN f.properties # {}
    \/ "coordinates" \notin DOMAIN f.geometry
    \/ Len(f.geometry.coordinates) < 2

\* C13: a successful response with a feature that lacks a required member
\* gives no records: the call ends in an exception that is no request
\* exception and is not turned into the no-data outcome, also when the
\* other features are well-formed.
C13_MalformedFailsBatch ==
    (Succeeded /\ \E i \in 1 .. Len(last.resp[1].features) :
                      LacksRequired(last.resp[1].features[i])) =>
        /\ last.ret = "raise"
        /\ last.exc \in {"KeyError", "IndexError", "TypeError"}
        /\ last.table = << >>
        /\ last.report = NoReport

C13_Witness ==
    /\ Succeeded
    /\ last.resp[1].features = <<FVenezuela, FNoMag>>
    /\ last.ret = "raise"
    /\ last.exc = "KeyError"

\* C14: in the multi-region variant a pais that names no region does not
\* make the call fail and the request carries the Peru rectangle
\* (-18.5, 0.0, -81.5, -68.0); for Peru, Venezuela and Ambos it carries
\* that region's rectangle.
C14_RectangleSent ==
    (variant = "stream" /\ last.request # None) =>
        LET p == last.request[1]
            pais == last.key[3]
            sent == <<p.minlatitude, p.maxlatitude, p.minlongitude, p.maxlongitude>>
        IN  IF pais \in {"Peru", "Venezuela", "Ambos"}
            THEN sent = RegionBox(pais)
            ELSE /\ sent = <<-185, 0, -815, -680>>
                 /\ last.ret = "raise" =>
                       \E i \in 1 .. Len(last.resp[1].features) :
                           LacksRequired(last.resp[1].features[i])

C14_Witness ==
    /\ variant = "stream"
    /\ last.request # None
    /\ last.key[3] = "Chile"
    /\ last.ret = "table"
    /\ last.request[1].minlatitude = -185
    /\ last.request[1].maxlongitude = -680

\* C15: the streaming dashboard renders only when the call returned a
\* table with rows; every row rendered is a fetched one with a depth, at
\* most profundidad_max, and with tsunami = 1 when the tsunami option is
\* set: a record without a depth is never rendered, and the table rendered
\* may have no rows.
C15_RenderedRowsPassFilters ==
    (variant = "stream" /\ rendered # None) =>
        /\ last.ret = "table"
        /\ Len(last.table) >= 1
        /\ \A i \in 1 .. Len(rendered[1]) :
              LET r == rendered[1][i] IN
              /\ \E j \in 1 .. Len(last.table) : last.table[j] = r
              /\ r.profundidad # None
              /\ r.profundidad[1] <= filtros.profundidad_max
              /\ filtros.mostrar_tsunamis => r.tsunami = 1

C15_Witness ==
    /\ variant = "stream"
    /\ rendered = Some(<< >>)
    /\ Len(last.table) = 2
    /\ last.table[1].profundidad = None
    /\ last.table[2].tsunami = 1
    /\ filtros.mostrar_tsunamis

====
